---- MODULE Spec2Model ----
(***************************************************************************)
(* Mechanic Shop API: the token codec (app/utils/token.py), the access     *)
(* guard token_required, the login handlers and the startup migration      *)
(* guard _auto_migrate (app/__init__.py).                                  *)
(*                                                                         *)
(* Strings the code inspects character by character (the Authorization    *)
(* header) are sequences of symbols.  A symbol is a character Ch(c) or a   *)
(* whole compact JWT serialisation, kept as one record so that its header, *)
(* payload and signing key stay readable.  A JWT serialisation contains no *)
(* whitespace and starts with "eyJ", never with "bearer".                  *)
(***************************************************************************)
EXTENDS Integers, Sequences, FiniteSets, TLC

VARIABLES
    now,        \* the clock, integer seconds since the epoch of the model
    environ,    \* os.environ["SECRET_KEY"] of the serving process (or Unset)
    config,     \* app.config["SECRET_KEY"] after create_app
    issued,     \* the last token handed to a client, with the arguments of its encode_token call
    resp,       \* the HTTP exchange being served: the request, the response, what the guard did
    pc,         \* per starting process: position inside create_app / _auto_migrate
    conn,       \* per starting process: the connection of `with engine.begin() as conn`
    ok,         \* per starting process: the local `ok` of _auto_migrate
    raised,     \* per starting process: the exception in flight, or NoExc
    result,     \* per starting process: how create_app ended
    lock,       \* the datastore: the process whose session holds advisory lock 91199001
    version,    \* the datastore: the committed content of alembic_version
    tables,     \* the datastore: which groups of tables exist (committed)
    pending,    \* the datastore: the process whose open transaction has dropped alembic_version
    log         \* per starting process: what its run of the guard did, in order

authVars == <<now, environ, config, issued, resp>>

migVars == <<pc, conn, ok, raised, result, lock, version, tables, pending, log>>

vars == <<now, environ, config, issued, resp,
          pc, conn, ok, raised, result, lock, version, tables, pending, log>>

----------------------------------------------------------------------------
(* Bounds of the model *)

MaxTicks == 3

\* the most repetitions of the word Bearer in a header
MaxWords == 2

ClockStep == 60 * 60 * 4

----------------------------------------------------------------------------
(* Symbols and strings *)

Ch(c) == [k |-> "ch", c |-> c]

Str(s) == [i \in 1..Len(s) |-> Ch(s[i])]

Whitespace == {Ch(" "), Ch("\t")}

LowerChar(x) ==
    IF x.k # "ch" THEN x
    ELSE CASE x.c = "B" -> Ch("b")
           [] x.c = "E" -> Ch("e")
           [] x.c = "A" -> Ch("a")
           [] x.c = "R" -> Ch("r")
           [] x.c = "S" -> Ch("s")
           [] x.c = "I" -> Ch("i")
           [] x.c = "C" -> Ch("c")
           [] OTHER -> x

lower(h) == [i \in 1..Len(h) |-> LowerChar(h[i])]

RECURSIVE lstrip(_)
lstrip(h) == IF h # <<>> /\ Head(h) \in Whitespace THEN lstrip(Tail(h)) ELSE h

RECURSIVE rstrip(_)
rstrip(h) ==
    IF h # <<>> /\ h[Len(h)] \in Whitespace THEN rstrip(SubSeq(h, 1, Len(h) - 1)) ELSE h

strip(h) == rstrip(lstrip(h))

bearer == Str(<<"b", "e", "a", "r", "e", "r">>)

startswith(h, p) == Len(h) >= Len(p) /\ SubSeq(h, 1, Len(p)) = p

----------------------------------------------------------------------------
(* Token codec: app/utils/token.py *)

ALGO == "HS256"

DEFAULT_EXPIRES_IN == 60 * 60 * 8

Unset == "<unset>"

NoRole == "<none>"

\* falsy values of Python's `or` chain among the values a secret can take
Falsy(v) == v = Unset \/ v = ""

_secret_key ==
    IF ~Falsy(config) THEN config
    ELSE IF ~Falsy(environ) THEN environ
    ELSE "dev-secret"

IntToStr(n) ==
    CASE n = 1 -> "1" [] n = 2 -> "2" [] n = 7 -> "7" [] n = 42 -> "42" [] OTHER -> "?"

\* str(sub) for sub: str | int
StrOf(sub) == IF "int" \in DOMAIN sub THEN IntToStr(sub.int) ELSE sub.str

\* jwt.encode(payload, key, algorithm): one symbol standing for header.payload.signature
jwt_encode(payload, key, alg) ==
    [k |-> "jwt", alg |-> alg, sub |-> payload.sub, role |-> payload.role,
     iat |-> payload.iat, exp |-> payload.exp, sig |-> key]

encode_token_role_dropped(sub, role, expires_in) ==
    <<jwt_encode([sub |-> StrOf(sub), iat |-> now, exp |-> now + expires_in,
                  role |-> NoRole], _secret_key, ALGO)>>

encode_token(sub, role, expires_in) ==
    <<jwt_encode([sub |-> StrOf(sub), iat |-> now, exp |-> now + expires_in,
                  role |-> IF role # NoRole /\ role # "" THEN role ELSE NoRole],
                 _secret_key, ALGO)>>

generate_token(sub, role, expires_in) == encode_token(sub, role, expires_in)

NoPayload == [sub |-> "", role |-> NoRole, iat |-> 0, exp |-> 0]

\* python-jose's _validate_exp raises ExpiredSignatureError only when exp < now
jose_expired(exp, t) == exp < t

\* jwt.decode(token, key, algorithms=[ALGO]) of python-jose: parse, check the
\* algorithm and the signature, then validate the claims.  err # "none" is a JWTError.
jwt_decode(token, key, t) ==
    IF Len(token) # 1 \/ token[1].k # "jwt"
    THEN [err |-> "Malformed", payload |-> NoPayload]
    ELSE IF token[1].alg # ALGO \/ token[1].sig # key
    THEN [err |-> "BadSignature", payload |-> NoPayload]
    ELSE IF jose_expired(token[1].exp, t)
    THEN [err |-> "Expired", payload |-> NoPayload]
    ELSE [err |-> "none",
          payload |-> [sub |-> token[1].sub, role |-> token[1].role,
                       iat |-> token[1].iat, exp |-> token[1].exp]]

decode_jwt_unverified(token) ==
    jwt_decode(token, IF Len(token) = 1 /\ token[1].k = "jwt" THEN token[1].sig ELSE _secret_key,
               now)

decode_jwt(token) == jwt_decode(token, _secret_key, now)

strip_bearer_once(h) ==
    IF startswith(lower(h), bearer) THEN strip(SubSeq(h, 7, Len(h))) ELSE h

\* `while h.lower().startswith("bearer"): h = h[6:].strip()`
RECURSIVE strip_bearer_loop(_)
strip_bearer_loop(h) ==
    IF startswith(lower(h), bearer)
    THEN strip_bearer_loop(strip(SubSeq(h, 7, Len(h))))
    ELSE h

\* returns <<>> for Python's None
_extract_bearer_token(auth_header) ==
    IF auth_header = <<>> THEN <<>>
    ELSE strip_bearer_loop(strip(auth_header))

----------------------------------------------------------------------------
(* Access guard: token_required in app/utils/token.py *)

NoToken == <<>>

Response(status, key, msg) == [status |-> status, key |-> key, msg |-> msg]

\* `if not token`
token_missing(token) == token = <<>>

role_forbidden_unless_roleless(roles, role) == roles # {} /\ role # NoRole /\ role \notin roles

\* `if roles and role not in roles`
role_forbidden(roles, role) == roles # {} /\ role \notin roles

invalid_token_response_leaky(err) == Response(401, "error", err)

\* `except JWTError: return jsonify({"error": "Invalid token"}), 401`
invalid_token_response(err) == Response(401, "error", "Invalid token")

\* What the view returns when the wrapper calls it: fn(*args, **kwargs)
fn(sub, role) == Response(200, "data", "ok")

Exchange(kind, path, header, roles, email, password, r, invoked, sub, role, err, token) ==
    [kind |-> kind, path |-> path, header |-> header, roles |-> roles,
     email |-> email, password |-> password,
     status |-> r.status, key |-> r.key, msg |-> r.msg,
     invoked |-> invoked, sub |-> sub, role |-> role, err |-> err, token |-> token]

NoExchange ==
    Exchange("none", "", <<>>, {}, "", "", Response(0, "", ""), FALSE, "", NoRole, "none", NoToken)

\* wrapper(*args, **kwargs) of token_required(*roles) on a request with the given
\* Authorization header (<<>> when the header is absent: headers.get(..., ""))
wrapper(roles, header) ==
    LET token == _extract_bearer_token(header)
        d == decode_jwt(token)
        role == d.payload.role
        sub == d.payload.sub
        G(r, invoked, s, ro, err) ==
            Exchange("guard", "", header, roles, "", "", r, invoked, s, ro, err, token)
    IN  IF token_missing(token)
        THEN G(Response(401, "error", "Missing or invalid Authorization header"),
               FALSE, "", NoRole, "MissingHeader")
        ELSE IF d.err # "none"
        THEN G(invalid_token_response(d.err), FALSE, "", NoRole, d.err)
        ELSE IF role_forbidden(roles, role)
        THEN G(Response(403, "error", "Forbidden"), FALSE, "", NoRole, "Forbidden")
        ELSE G(fn(sub, role), TRUE, sub, role, "none")

----------------------------------------------------------------------------
(* Credential store (app/models.py) and the login handlers *)

\* A credential store: the customers and mechanics tables
Store(customers, mechanics) == [customers |-> customers, mechanics |-> mechanics]

db == Store({[id |-> 42, email |-> "a@x.io", password |-> "pw1"]},
            {[id |-> 7, email |-> "m@x.io", password |-> "pw2"]})

\* Model.query.filter_by(email=email): the rows, .first() being any of them
find_by_email(table, email) == {p \in table : p.email = email}

check_password(principal, plaintext) == principal.password = plaintext

\* data["email"].strip().lower() on the e-mail inputs of the model
normalize_email(e) == IF e = " A@X.IO " THEN "a@x.io" ELSE IF e = "M@x.io" THEN "m@x.io" ELSE e

\* marshmallow fields.Email on the e-mail inputs of the model
valid_email(e) == e \in {"a@x.io", "m@x.io", "M@x.io", "zz@x.io"}

\* `_require(fields, data)`: the message, or "" for None
_require(email, password) ==
    IF email = "" /\ password = "" THEN "Missing required field(s): email, password"
    ELSE IF email = "" THEN "Missing required field(s): email"
    ELSE IF password = "" THEN "Missing required field(s): password"
    ELSE ""

LoginResult(r, token) == [r |-> r, token |-> token]

auth_login_unknown_email_404(table, role, email, password) ==
    LET err == _require(email, password)
        found == find_by_email(table, normalize_email(email))
    IN  IF err # "" THEN LoginResult(Response(400, "error", err), NoToken)
        ELSE IF found = {} THEN LoginResult(Response(404, "error", "Unknown e-mail"), NoToken)
        ELSE IF \A p \in found : ~check_password(p, password)
        THEN LoginResult(Response(401, "error", "Invalid credentials"), NoToken)
        ELSE LET p == CHOOSE q \in found : check_password(q, password)
             IN  LoginResult(Response(200, "token", "<jwt>"),
                             generate_token([str |-> IntToStr(p.id)], role, DEFAULT_EXPIRES_IN))

\* The body shared by customer_login and mechanic_login of app/blueprints/auth/routes.py
auth_login(table, role, email, password) ==
    LET err == _require(email, password)
        found == find_by_email(table, normalize_email(email))
    IN  IF err # "" THEN LoginResult(Response(400, "error", err), NoToken)
        ELSE IF found = {} \/ \A p \in found : ~check_password(p, password)
        THEN LoginResult(Response(401, "error", "Invalid credentials"), NoToken)
        ELSE LET p == CHOOSE q \in found : check_password(q, password)
             IN  LoginResult(Response(200, "token", "<jwt>"),
                             generate_token([str |-> IntToStr(p.id)], role, DEFAULT_EXPIRES_IN))

customer_login(store, email, password) == auth_login(store.customers, "customer", email, password)

auth_mechanic_login(store, email, password) ==
    auth_login(store.mechanics, "mechanic", email, password)

\* mechanic_login of app/blueprints/mechanics/routes.py
mechanics_mechanic_login(store, email, password) ==
    LET found == find_by_email(store.mechanics, email)
    IN  IF ~valid_email(email)
        THEN LoginResult(Response(400, "errors", "email: Not a valid email address."), NoToken)
        ELSE IF found = {}
        THEN LoginResult(Response(401, "error", "Invalid credentials"), NoToken)
        ELSE IF \A p \in found : ~check_password(p, password)
        THEN LoginResult(Response(401, "error", "Invalid credentials"), NoToken)
        ELSE LET p == CHOOSE q \in found : check_password(q, password)
             IN  LoginResult(Response(200, "token", "<jwt>"),
                             encode_token([int |-> p.id], NoRole, DEFAULT_EXPIRES_IN))

\* The POST rules create_app registers, in registration order; the first match serves
url_map ==
    << [rule |-> "/mechanics/login", endpoint |-> "mechanics.mechanic_login"],
       [rule |-> "/login", endpoint |-> "auth.customer_login"],
       [rule |-> "/mechanics/login", endpoint |-> "auth.mechanic_login"] >>

dispatch(path) ==
    url_map[CHOOSE i \in 1..Len(url_map) :
                /\ url_map[i].rule = path
                /\ \A j \in 1..(i - 1) : url_map[j].rule # path].endpoint

view(path, store, email, password) ==
    CASE dispatch(path) = "auth.customer_login" -> customer_login(store, email, password)
      [] dispatch(path) = "auth.mechanic_login" -> auth_mechanic_login(store, email, password)
      [] dispatch(path) = "mechanics.mechanic_login" ->
            mechanics_mechanic_login(store, email, password)

----------------------------------------------------------------------------
(* Configuration: app/config.py and the config section of create_app *)

EnvValues == {Unset, "k1"}

ConfigObjects == {"ProductionConfig", "DevelopmentConfig", "dict"}

\* os.getenv("SECRET_KEY", default)
getenv_SECRET_KEY(env, default) == IF env = Unset THEN default ELSE env

\* app.config["SECRET_KEY"] once create_app has loaded config_object
config_SECRET_KEY(config_object, env) ==
    IF config_object = "dict"
    THEN getenv_SECRET_KEY(env, "fallback_dev_secret")
    ELSE getenv_SECRET_KEY(env, "dev-secret")

----------------------------------------------------------------------------
(* Inputs of the model *)

Roles == {"customer", "mechanic"}

SubjectInputs == {[int |-> 42], [str |-> "7"]}

RoleInputs == Roles \cup {NoRole}

TtlInputs == {ClockStep, DEFAULT_EXPIRES_IN}

RequiredRoleSets == {{}, {"mechanic"}, {"customer", "mechanic"}}

EmailInputs == {"", "a@x.io", " A@X.IO ", "m@x.io", "zz@x.io"}

PasswordInputs == {"", "pw1", "pw2"}

LoginPaths == {"/login", "/mechanics/login"}

NoIssued == [tok |-> NoToken, sub |-> [str |-> ""], role |-> NoRole, ttl |-> 0, at |-> 0, key |-> ""]

\* Token strings a client can present: the one it was issued, one signed with a key
\* of its own, one that names another algorithm, and one that is no JWT at all
ForgedPayload == [sub |-> "42", role |-> "mechanic", iat |-> now, exp |-> now + DEFAULT_EXPIRES_IN]

TokenStrings ==
    (IF issued = NoIssued THEN {} ELSE {issued.tok})
    \cup { <<jwt_encode(ForgedPayload, "attacker-key", ALGO)>>,
           <<jwt_encode(ForgedPayload, "", "none")>>,
           Str(<<"x", "y">>) }

Bearer == Str(<<"B", "e", "a", "r", "e", "r">>)

SP == Str(<<" ">>)

\* Authorization header values built around token string t; <<>> is the absent header
HeaderInputs(t) ==
    { <<>>,
      Bearer \o SP \o t,
      bearer \o SP \o t,
      t,
      Bearer,
      SP \o Bearer \o Str(<<" ", "\t">>) \o t \o SP,
      Bearer \o SP \o Str(<<"B", "E", "A", "R", "E", "R">>) \o SP \o t,
      Str(<<"B", "a", "s", "i", "c", " ">>) \o t,
      Bearer \o t }

\* Headers made of words "Bearer" in some letter case, each followed by a gap, then
\* a token string (or none), with a gap before and after
BearerWords == {Bearer, Str(<<"b", "E", "a", "R", "e", "R">>)}

Gaps == {<<>>, Str(<<" ", "\t">>)}

WordRuns == UNION {[1..n -> BearerWords \X Gaps] : n \in 0..MaxWords}

\* Token strings: a JWT, a string that is none, one that begins with "bearer", and
\* <<>> for a header that ends after its words
ExtractTokens ==
    { <<jwt_encode([sub |-> "42", role |-> "mechanic", iat |-> 0, exp |-> DEFAULT_EXPIRES_IN],
                   "k1", ALGO)>>,
      Str(<<"x", "y">>),
      Str(<<"b", "e", "a", "r", "e", "r", "x">>),
      <<>> }

BearerHeaderParts == [lead : Gaps, words : WordRuns, t : ExtractTokens, trail : Gaps]

RECURSIVE JoinWords(_)
JoinWords(ws) ==
    IF ws = <<>> THEN <<>> ELSE ws[1][1] \o ws[1][2] \o JoinWords(Tail(ws))

BuildHeader(lead, words, t, trail) == lead \o JoinWords(words) \o t \o trail

----------------------------------------------------------------------------
(* Actions of the serving application *)

Tick ==
    /\ resp = NoExchange
    /\ now < MaxTicks * ClockStep
    /\ now' = now + ClockStep
    /\ UNCHANGED <<environ, config, issued, resp>>
    /\ UNCHANGED migVars

\* The process is restarted: create_app(config_object) under a new environment
Configure(config_object, env) ==
    /\ resp = NoExchange
    /\ environ' = env
    /\ config' = config_SECRET_KEY(config_object, env)
    /\ UNCHANGED <<now, issued, resp>>
    /\ UNCHANGED migVars

EncodeToken(sub, role, expires_in) ==
    /\ resp = NoExchange
    /\ issued' = [tok |-> encode_token(sub, role, expires_in), sub |-> sub, role |-> role,
                  ttl |-> expires_in, at |-> now, key |-> _secret_key]
    /\ UNCHANGED <<now, environ, config, resp>>
    /\ UNCHANGED migVars

\* A request to a view wrapped by token_required(*roles)
Request(roles, header) ==
    /\ resp = NoExchange
    /\ resp' = wrapper(roles, header)
    /\ UNCHANGED <<now, environ, config, issued>>
    /\ UNCHANGED migVars

\* POST path with body {"email": email, "password": password}
Login(path, email, password) ==
    LET res == view(path, db, email, password)
    IN  /\ resp = NoExchange
        /\ resp' = Exchange("login", path, <<>>, {}, email, password, res.r,
                            FALSE, "", NoRole, "none", res.token)
        /\ issued' = IF res.token = NoToken THEN issued
                     ELSE [tok |-> res.token, sub |-> [str |-> res.token[1].sub],
                           role |-> res.token[1].role, ttl |-> DEFAULT_EXPIRES_IN,
                           at |-> now, key |-> _secret_key]
        /\ UNCHANGED <<now, environ, config>>
        /\ UNCHANGED migVars

\* The response leaves; the application serves the next request
Complete ==
    /\ resp # NoExchange
    /\ resp' = NoExchange
    /\ UNCHANGED <<now, environ, config, issued>>
    /\ UNCHANGED migVars

InitAuth ==
    /\ now = 0
    /\ environ \in EnvValues
    /\ config = config_SECRET_KEY("DevelopmentConfig", environ)
    /\ issued = NoIssued
    /\ resp = NoExchange

NextAuth ==
    \/ Tick
    \/ \E c \in ConfigObjects, e \in EnvValues : Configure(c, e)
    \/ \E s \in SubjectInputs, r \in RoleInputs, t \in TtlInputs : EncodeToken(s, r, t)
    \/ \E rs \in RequiredRoleSets, t \in TokenStrings : \E h \in HeaderInputs(t) : Request(rs, h)
    \/ \E p \in LoginPaths, e \in EmailInputs, pw \in PasswordInputs : Login(p, e, pw)
    \/ Complete

----------------------------------------------------------------------------
(* Migration guard: _alembic_upgrade_head_safely and _auto_migrate in      *)
(* app/__init__.py, run by every process that calls create_app, against    *)
(* one Postgres datastore.                                                 *)
(*                                                                         *)
(* The datastore: pg_advisory_lock takes a session-level lock, which a     *)
(* session keeps until it unlocks or ends; closing a pooled connection     *)
(* returns it to the pool and ends nothing.  DROP TABLE takes an ACCESS    *)
(* EXCLUSIVE lock that its transaction keeps until it commits or rolls     *)
(* back.  After a failed statement the transaction is aborted and every    *)
(* later statement in it fails.                                            *)
(***************************************************************************)

Procs == {"w1", "w2"}

NoExc == "none"

Free == "free"

Nobody == "nobody"

\* Whether `except cls` catches exception exc
Caught(exc, cls) ==
    \/ cls = "BaseException"
    \/ cls = "Exception" /\ exc \in {"Exception", "CommandError", "ProgrammingError",
                                      "OperationalError"}
    \/ cls = "CommandError" /\ exc = "CommandError"

upgrade_except_CommandError_only == "CommandError"

\* `except CommandError` then `except BaseException` of _alembic_upgrade_head_safely
upgrade_except == "BaseException"

lock_except == "Exception"

drop_except == "Exception"

create_all_except == "Exception"

stamp_except == "BaseException"

unlock_except == "Exception"

auto_migrate_except == "Exception"

create_app_except == "Exception"

\* How create_app ends when exc leaves the body of _auto_migrate's outer try
Propagate(exc) ==
    IF exc = NoExc \/ Caught(exc, auto_migrate_except) \/ Caught(exc, create_app_except)
    THEN "app"
    ELSE "aborted"

\* Outcomes of conn.execute on a connection in state c: the statement runs, the
\* statement fails (the session lives, the transaction is aborted), the connection is lost
ConnOutcomes(c) ==
    IF c = "open" THEN {"ok", "error", "lost"}
    ELSE IF c = "aborted" THEN {"error", "lost"}
    ELSE {"lost"}

ConnAfter(c, o) == IF o = "ok" THEN c ELSE IF o = "error" THEN "aborted" ELSE "dead"

\* The session of p ends: the server releases what it held
LockAfterSessionEnd(p) == IF lock = p THEN Free ELSE lock

PendingAfterSessionEnd(p) == IF pending = p THEN Nobody ELSE pending

\* alembic_version exists and an open transaction holds ACCESS EXCLUSIVE on it
VersionTableLocked == pending # Nobody /\ version # "none"

DbState(exc, v, t) == [exc |-> exc, version |-> v, tables |-> t]

\* flask_migrate.upgrade() on its own connection: the runs that end (a run that
\* needs alembic_version waits while the table is locked)
\* The failures: the database cannot be reached or cancels the statement
\* (OperationalError, at any time), the recorded revision is not in the history
\* (CommandError, which flask_migrate's catch_errors turns into SystemExit), a table
\* of the initial revision exists already (ProgrammingError, DuplicateTable)
fm_upgrade ==
    {DbState(e, version, tables) : e \in {"OperationalError"}}
    \cup (IF VersionTableLocked THEN {}
          ELSE IF version = "head" THEN {DbState(NoExc, version, tables)}
          ELSE IF version = "stale"
          THEN {DbState(e, version, tables) : e \in {"CommandError", "SystemExit"}}
          ELSE IF tables.hist THEN {DbState("ProgrammingError", version, tables)}
          ELSE {DbState(NoExc, "head", [tables EXCEPT !.hist = TRUE])})

\* What app.logger and Alembic's own log tell about one call of
\* _alembic_upgrade_head_safely that ended as out
upgrade_log(out) ==
    CASE out.exc = NoExc /\ out.version # version -> "upgraded"
      [] out.exc = NoExc -> "upgrade_ok"
      [] out.exc \in {"CommandError", "SystemExit"} -> "upgrade_failed_missing_revision"
      [] out.exc = "ProgrammingError" -> "upgrade_failed_duplicate_table"
      [] OTHER -> "upgrade_failed_unavailable"

\* The tables of the data model (app/models.py) are the tables the guard looks for;
\* the tables of the migration history carry other names and are none of them
metadata_create_all(t) == [t EXCEPT !.core = TRUE]

\* db.create_all(): every table of the data model that is missing is created
create_all ==
    { DbState("Exception", version, tables),
      DbState(NoExc, version, metadata_create_all(tables)) }

\* flask_migrate.stamp(revision="head")
fm_stamp ==
    {DbState(e, version, tables) : e \in {"Exception", "SystemExit"}}
    \cup (IF VersionTableLocked \/ version = "stale" THEN {}
          ELSE {DbState(NoExc, "head", tables)})

Append1(f, p, e) == [f EXCEPT ![p] = Append(@, e)]

\* The log of p has entry e
Did(p, e) == \E i \in DOMAIN log[p] : log[p][i] = e

\* create_app up to the call of _auto_migrate, and the two early returns of the guard
Start(p) ==
    /\ pc[p] = "idle"
    /\ \E AUTO_MIGRATE \in {"1", "0"}, uri \in {"postgresql", "sqlite"} :
          IF AUTO_MIGRATE # "1" \/ uri # "postgresql"
          THEN /\ pc' = [pc EXCEPT ![p] = "returned"]
               /\ result' = [result EXCEPT ![p] = "app"]
          ELSE /\ pc' = [pc EXCEPT ![p] = "engine"]
               /\ UNCHANGED result
    /\ UNCHANGED <<conn, ok, raised, lock, version, tables, pending, log>>
    /\ UNCHANGED authVars

\* engine = db.engine; insp = inspect(engine)
GetEngine(p) ==
    /\ pc[p] = "engine"
    /\ \E exc \in {NoExc, "Exception"} :
          IF exc = NoExc
          THEN /\ pc' = [pc EXCEPT ![p] = "begin"]
               /\ UNCHANGED result
          ELSE /\ pc' = [pc EXCEPT ![p] = "returned"]
               /\ result' = [result EXCEPT ![p] = Propagate(exc)]
    /\ UNCHANGED <<conn, ok, raised, lock, version, tables, pending, log>>
    /\ UNCHANGED authVars

\* with engine.begin() as conn:
Begin(p) ==
    /\ pc[p] = "begin"
    /\ \E exc \in {NoExc, "Exception"} :
          IF exc = NoExc
          THEN /\ pc' = [pc EXCEPT ![p] = "lock"]
               /\ conn' = [conn EXCEPT ![p] = "open"]
               /\ UNCHANGED result
          ELSE /\ pc' = [pc EXCEPT ![p] = "returned"]
               /\ result' = [result EXCEPT ![p] = Propagate(exc)]
               /\ UNCHANGED conn
    /\ UNCHANGED <<ok, raised, lock, version, tables, pending, log>>
    /\ UNCHANGED authVars

\* conn.execute(text("SELECT pg_advisory_lock(91199001)")), which waits while
\* another session holds the lock
AcquireLock(p) ==
    /\ pc[p] = "lock"
    /\ \E o \in ConnOutcomes(conn[p]) :
          /\ o = "ok" => lock = Free
          /\ conn' = [conn EXCEPT ![p] = ConnAfter(@, o)]
          /\ lock' = IF o = "ok" THEN p ELSE lock
          /\ log' = IF o = "ok" THEN Append1(log, p, "locked") ELSE log
          /\ pc' = [pc EXCEPT ![p] = IF o = "ok" THEN "upgrade1" ELSE "exit_with"]
          /\ raised' = [raised EXCEPT ![p] =
                            IF o = "ok" \/ Caught("Exception", lock_except)
                            THEN NoExc ELSE "Exception"]
    /\ UNCHANGED <<ok, result, version, tables, pending>>
    /\ UNCHANGED authVars

\* ok = _alembic_upgrade_head_safely(app), first attempt and retry
Upgrade(p) ==
    /\ pc[p] \in {"upgrade1", "upgrade2"}
    /\ \E out \in fm_upgrade :
          /\ version' = out.version
          /\ tables' = out.tables
          /\ ok' = [ok EXCEPT ![p] = out.exc = NoExc]
          /\ log' = Append1(log, p, upgrade_log(out))
          /\ IF out.exc # NoExc /\ ~Caught(out.exc, upgrade_except)
             THEN /\ raised' = [raised EXCEPT ![p] = out.exc]
                  /\ pc' = [pc EXCEPT ![p] = "unlock"]
             ELSE /\ UNCHANGED raised
                  /\ pc' = [pc EXCEPT ![p] =
                                IF pc[p] = "upgrade1" /\ out.exc # NoExc THEN "drop"
                                ELSE "inspect"]
    /\ UNCHANGED <<conn, result, lock, pending>>
    /\ UNCHANGED authVars

\* conn.execute(text("DROP TABLE IF EXISTS alembic_version")), inside conn's
\* transaction; it waits while another transaction holds the table
DropVersion(p) ==
    /\ pc[p] = "drop"
    /\ \E o \in ConnOutcomes(conn[p]) :
          /\ o = "ok" => ~(VersionTableLocked /\ pending # p)
          /\ conn' = [conn EXCEPT ![p] = ConnAfter(@, o)]
          /\ pending' = IF o = "ok" THEN (IF version # "none" THEN p ELSE pending)
                        ELSE IF o = "lost" THEN PendingAfterSessionEnd(p) ELSE pending
          /\ lock' = IF o = "lost" THEN LockAfterSessionEnd(p) ELSE lock
          /\ log' = Append1(log, p, IF o = "ok" THEN "drop" ELSE "drop_failed")
          /\ IF o # "ok" /\ ~Caught("Exception", drop_except)
             THEN /\ raised' = [raised EXCEPT ![p] = "Exception"]
                  /\ pc' = [pc EXCEPT ![p] = "unlock"]
             ELSE /\ UNCHANGED raised
                  /\ pc' = [pc EXCEPT ![p] = "upgrade2"]
    /\ UNCHANGED <<ok, result, version, tables>>
    /\ UNCHANGED authVars

\* core_has_tables = any(insp.has_table(t) for t in (...)), and the branch on it
Inspect(p) ==
    /\ pc[p] = "inspect"
    /\ \E exc \in {NoExc, "Exception"} :
          /\ raised' = [raised EXCEPT ![p] = exc]
          /\ log' = IF exc # NoExc THEN Append1(log, p, "inspect_failed") ELSE log
          /\ pc' = [pc EXCEPT ![p] =
                        IF exc # NoExc THEN "unlock"
                        ELSE IF tables.core THEN "unlock"
                        ELSE "create_all"]
    /\ UNCHANGED <<conn, ok, result, lock, version, tables, pending>>
    /\ UNCHANGED authVars

\* db.create_all() in its try
CreateAll(p) ==
    /\ pc[p] = "create_all"
    /\ \E out \in create_all :
          /\ tables' = out.tables
          /\ log' = Append1(log, p, IF out.exc = NoExc THEN "create_all" ELSE "create_all_failed")
          /\ IF out.exc # NoExc /\ ~Caught(out.exc, create_all_except)
             THEN /\ raised' = [raised EXCEPT ![p] = out.exc]
                  /\ pc' = [pc EXCEPT ![p] = "unlock"]
             ELSE /\ UNCHANGED raised
                  /\ pc' = [pc EXCEPT ![p] = "stamp"]
    /\ UNCHANGED <<conn, ok, result, lock, version, pending>>
    /\ UNCHANGED authVars

\* fm_stamp(revision="head") in its try
Stamp(p) ==
    /\ pc[p] = "stamp"
    /\ \E out \in fm_stamp :
          /\ version' = out.version
          /\ log' = Append1(log, p, IF out.exc = NoExc THEN "stamp" ELSE "stamp_failed")
          /\ raised' = [raised EXCEPT ![p] =
                            IF out.exc # NoExc /\ ~Caught(out.exc, stamp_except)
                            THEN out.exc ELSE NoExc]
          /\ pc' = [pc EXCEPT ![p] = "unlock"]
    /\ UNCHANGED <<conn, ok, result, lock, tables, pending>>
    /\ UNCHANGED authVars

unlock_keeps_lock(p, o) == lock

\* The holder of the advisory lock after conn.execute(pg_advisory_unlock) ended as o
\* in the session of p
unlock(p, o) ==
    IF o = "ok" \/ o = "lost" THEN LockAfterSessionEnd(p) ELSE lock

\* finally: conn.execute(text("SELECT pg_advisory_unlock(91199001)")) in its try
Unlock(p) ==
    /\ pc[p] = "unlock"
    /\ \E o \in ConnOutcomes(conn[p]) :
          /\ conn' = [conn EXCEPT ![p] = ConnAfter(@, o)]
          /\ lock' = unlock(p, o)
          /\ pending' = IF o = "lost" THEN PendingAfterSessionEnd(p) ELSE pending
          /\ log' = Append1(log, p, IF o = "ok" THEN "unlocked" ELSE "unlock_failed")
          /\ raised' = [raised EXCEPT ![p] =
                            IF o # "ok" /\ ~Caught("Exception", unlock_except)
                            THEN "Exception" ELSE @]
    /\ pc' = [pc EXCEPT ![p] = "exit_with"]
    /\ UNCHANGED <<ok, result, version, tables>>
    /\ UNCHANGED authVars

\* The end of `with engine.begin() as conn`: commit, or roll back when an exception
\* is in flight; the connection goes back to the pool; then the outer except of
\* _auto_migrate, the except of create_app, and create_app returns
ExitWith(p) ==
    /\ pc[p] = "exit_with"
    /\ \E o \in (IF conn[p] = "open" /\ raised[p] = NoExc THEN {"ok", "lost"}
                 ELSE IF conn[p] = "dead" THEN {"lost"} ELSE {"ok"}) :
          /\ conn' = [conn EXCEPT ![p] = IF o = "lost" THEN "dead" ELSE "pooled"]
          /\ version' = IF o = "ok" /\ conn[p] = "open" /\ raised[p] = NoExc /\ pending = p
                        THEN "none" ELSE version
          /\ pending' = PendingAfterSessionEnd(p)
          /\ lock' = IF o = "lost" THEN LockAfterSessionEnd(p) ELSE lock
          /\ result' = [result EXCEPT ![p] =
                            Propagate(IF raised[p] # NoExc THEN raised[p]
                                      ELSE IF o = "lost" THEN "Exception" ELSE NoExc)]
    /\ raised' = [raised EXCEPT ![p] = NoExc]
    /\ pc' = [pc EXCEPT ![p] = "returned"]
    /\ UNCHANGED <<ok, tables, log>>
    /\ UNCHANGED authVars

\* The process ends (a worker is recycled, a deployment is replaced): its sessions
\* end with it, and a new process may start in its place
Exit(p) ==
    /\ pc[p] = "returned"
    /\ pc' = [pc EXCEPT ![p] = "idle"]
    /\ conn' = [conn EXCEPT ![p] = "none"]
    /\ ok' = [ok EXCEPT ![p] = FALSE]
    /\ result' = [result EXCEPT ![p] = "running"]
    /\ log' = [log EXCEPT ![p] = <<>>]
    /\ lock' = LockAfterSessionEnd(p)
    /\ pending' = PendingAfterSessionEnd(p)
    /\ UNCHANGED <<raised, version, tables>>
    /\ UNCHANGED authVars

\* main() of scripts/prestart.py once its create_app() has returned:
\* db.session.execute(text("DROP TABLE IF EXISTS alembic_version")) and commit, in
\* a try that prints what fails.  No advisory lock is taken.  The statement waits
\* while another transaction holds the table.
PrestartDrop(p) ==
    /\ pc[p] = "returned"
    /\ result[p] = "app"
    /\ ~Did(p, "prestart_drop")
    /\ ~Did(p, "prestart_drop_failed")
    /\ \E o \in {"ok", "error"} :
          /\ o = "ok" => ~VersionTableLocked
          /\ version' = IF o = "ok" THEN "none" ELSE version
          /\ log' = Append1(log, p, IF o = "ok" THEN "prestart_drop" ELSE "prestart_drop_failed")
    /\ UNCHANGED <<pc, conn, ok, raised, result, lock, tables, pending>>
    /\ UNCHANGED authVars

\* health() of create_app: GET /health
health == Response(200, "status", "ok")

\* diag() of app/blueprints/diag/routes.py: out["ok"] turns False only when the engine
\* or the connection cannot be had; a missing alembic_version or an empty list of
\* tables goes to out["errors"] and leaves the status alone
diag(engine_ok, connect_ok) ==
    IF engine_ok /\ connect_ok THEN Response(200, "ok", "true") ELSE Response(500, "ok", "false")

\* The blueprints create_app registers besides the Swagger UI
registered_blueprints ==
    {"customers", "inventory", "mechanics", "service_tickets", "vehicles",
     "customer_ticket", "mechanic_ticket", "auth"}

HealthPaths == {"/health", "/__diag"}

\* The answer of the application to GET path
get_view(path, engine_ok, connect_ok) ==
    IF path = "/health" THEN health
    ELSE IF path = "/__diag" /\ "diag" \in registered_blueprints
    THEN diag(engine_ok, connect_ok)
    ELSE Response(404, "error", "Not Found")

\* A process whose create_app has returned serves GET path
Get(p, path) ==
    /\ pc[p] = "returned"
    /\ resp = NoExchange
    /\ \E engine_ok \in BOOLEAN, connect_ok \in BOOLEAN :
          resp' = Exchange("get", path, <<>>, {}, "", "", get_view(path, engine_ok, connect_ok),
                           FALSE, "", NoRole, "none", NoToken)
    /\ UNCHANGED <<now, environ, config, issued>>
    /\ UNCHANGED migVars

InitMig ==
    /\ pc = [p \in Procs |-> "idle"]
    /\ conn = [p \in Procs |-> "none"]
    /\ ok = [p \in Procs |-> FALSE]
    /\ raised = [p \in Procs |-> NoExc]
    /\ result = [p \in Procs |-> "running"]
    /\ lock = Free
    /\ version \in {"none", "stale", "head"}
    /\ tables \in [hist : BOOLEAN, core : BOOLEAN]
    /\ pending = Nobody
    /\ log = [p \in Procs |-> <<>>]

NextMig ==
    \E p \in Procs :
        \/ Start(p)
        \/ GetEngine(p)
        \/ Begin(p)
        \/ AcquireLock(p)
        \/ Upgrade(p)
        \/ DropVersion(p)
        \/ Inspect(p)
        \/ CreateAll(p)
        \/ Stamp(p)
        \/ Unlock(p)
        \/ ExitWith(p)
        \/ Exit(p)

Init == InitAuth /\ InitMig

Next == NextAuth \/ NextMig

Spec == Init /\ [][Next]_vars

\* The serving application alone, over a datastore at rest
InitServing == Init /\ version = "head" /\ tables = [hist |-> TRUE, core |-> TRUE]

SpecAuth == InitServing /\ [][NextAuth]_vars

\* The guard alone, on requests whose Authorization header repeats the word Bearer
InitBearer == InitServing /\ environ = "k1"

NextBearer ==
    \/ \E g \in BearerHeaderParts : Request({}, BuildHeader(g.lead, g.words, g.t, g.trail))
    \/ Complete

SpecBearer == InitBearer /\ [][NextBearer]_vars

\* The starting processes alone, no request served
InitStarting == Init /\ environ = Unset

SpecMig == InitStarting /\ [][NextMig]_vars

\* A deployment: every process runs create_app once, as the application's entry
\* point or as the first statement of scripts/prestart.py
NextDeploy ==
    \E p \in Procs :
        \/ Start(p)
        \/ GetEngine(p)
        \/ Begin(p)
        \/ AcquireLock(p)
        \/ Upgrade(p)
        \/ DropVersion(p)
        \/ Inspect(p)
        \/ CreateAll(p)
        \/ Stamp(p)
        \/ Unlock(p)
        \/ ExitWith(p)
        \/ PrestartDrop(p)

SpecDeploy == InitStarting /\ [][NextDeploy]_vars

\* One start of every process: the processes of one deployment run create_app once
\* each, side by side
NextStartup ==
    \E p \in Procs :
        \/ Start(p)
        \/ GetEngine(p)
        \/ Begin(p)
        \/ AcquireLock(p)
        \/ Upgrade(p)
        \/ DropVersion(p)
        \/ Inspect(p)
        \/ CreateAll(p)
        \/ Stamp(p)
        \/ Unlock(p)
        \/ ExitWith(p)
        \/ \E path \in HealthPaths : Get(p, path)
        \/ Complete

\* Entries of the log that tell of a failure the datastore's state does not explain
FaultEntries ==
    {"upgrade_failed_unavailable", "drop_failed", "inspect_failed", "create_all_failed",
     "stamp_failed", "unlock_failed"}

\* Something failed in the run of p for a reason outside the datastore's state: a
\* statement was refused, the connection was lost, a library call gave up
Faulted(p) ==
    \/ conn[p] \in {"aborted", "dead"}
    \/ \E i \in DOMAIN log[p] : log[p][i] \in FaultEntries

\* A datastore on which an upgrade is pending that the migration history can apply:
\* no revision recorded and none of the history's tables present
InitPending == InitStarting /\ version = "none" /\ ~tables.hist

\* Every process runs the statements the datastore can execute: each step that does
\* not fail is taken if it stays possible
SpecStartup ==
    /\ InitPending
    /\ [][NextStartup]_vars
    /\ \A p \in Procs :
          WF_vars((\/ Start(p) \/ GetEngine(p) \/ Begin(p) \/ AcquireLock(p) \/ Upgrade(p)
                   \/ DropVersion(p) \/ Inspect(p) \/ CreateAll(p) \/ Stamp(p) \/ Unlock(p)
                   \/ ExitWith(p)) /\ ~Faulted(p)')

\* One step of create_app in process p
GuardStep(p) ==
    \/ Start(p) \/ GetEngine(p) \/ Begin(p) \/ AcquireLock(p) \/ Upgrade(p)
    \/ DropVersion(p) \/ Inspect(p) \/ CreateAll(p) \/ Stamp(p) \/ Unlock(p)
    \/ ExitWith(p)

\* The statement p is at waits in the database for a lock another session or
\* another transaction holds: pg_advisory_lock for the advisory lock; the SELECT on
\* alembic_version of flask_migrate.upgrade() and stamp(), and DROP TABLE
\* alembic_version, for the table an uncommitted DROP holds.  The application
\* sets no statement_timeout and no lock_timeout (app/config.py has no engine option).
Waiting(p) ==
    \/ pc[p] = "lock" /\ lock # Free
    \/ pc[p] \in {"upgrade1", "upgrade2", "stamp"} /\ VersionTableLocked
    \/ pc[p] = "drop" /\ VersionTableLocked /\ pending # p

\* Every process goes on, with a success or with a failure, from a statement that
\* does not wait; a statement that waits ends when what it waits for is released,
\* and otherwise only if the database or the network gives up on it, which nothing
\* in the program brings about
SpecGuardRun ==
    /\ InitStarting
    /\ [][NextStartup]_vars
    /\ \A p \in Procs : WF_vars(GuardStep(p) /\ ~Waiting(p))

----------------------------------------------------------------------------
(* Properties of the token codec, the access guard and the login handlers *)

Guarded == resp.kind = "guard"

IsJwt(token) == Len(token) = 1 /\ token[1].k = "jwt"

\* The token's signature verifies against the secret the verifier resolves
SignatureVerifies(token) ==
    IsJwt(token) /\ token[1].alg = ALGO /\ token[1].sig = _secret_key

\* Section 4.1 of the specification: a token is expired when now >= expires_at
ExpiredPerSpec(token) == now >= token[1].exp

ValidPerSpec(token) == SignatureVerifies(token) /\ ~ExpiredPerSpec(token)

RoleAllowed(roles, token) == roles = {} \/ token[1].role \in roles

\* C1, as stated: the wrapped handler is invoked only for a token that the header
\* yields, whose signature verifies under the current secret, that is not expired
\* and whose role is allowed; every other request is answered 401 (missing or
\* invalid token, whatever the role) or 403 (valid token, role not allowed)
\* without the handler being invoked.
C1_HandlerOnlyForValidToken ==
    Guarded =>
        /\ resp.invoked =>
              /\ resp.token # NoToken
              /\ ValidPerSpec(resp.token)
              /\ RoleAllowed(resp.roles, resp.token)
        /\ (resp.token = NoToken \/ ~ValidPerSpec(resp.token)) =>
              ~resp.invoked /\ resp.status = 401
        /\ (resp.token # NoToken /\ ValidPerSpec(resp.token)
                /\ ~RoleAllowed(resp.roles, resp.token)) =>
              ~resp.invoked /\ resp.status = 403

\* What the guard does guarantee: C1 with "not expired" read as python-jose reads
\* it (exp >= now), that is, C1 at every instant but now = exp.
C1_HoldsOffTheExpiryInstant ==
    (Guarded /\ (IsJwt(resp.token) => now # resp.token[1].exp)) =>
        /\ resp.invoked =>
              /\ resp.token # NoToken
              /\ ValidPerSpec(resp.token)
              /\ RoleAllowed(resp.roles, resp.token)
        /\ (resp.token = NoToken \/ ~ValidPerSpec(resp.token)) =>
              ~resp.invoked /\ resp.status = 401
        /\ (resp.token # NoToken /\ ValidPerSpec(resp.token)
                /\ ~RoleAllowed(resp.roles, resp.token)) =>
              ~resp.invoked /\ resp.status = 403

\* C2: a token produced by encode_token(subject, role, ttl) with a recognised role
\* and ttl > 0 decodes, under the same secret, to exactly sub = str(subject) and
\* role at every clock value before issued_at + ttl, and fails as expired at every
\* clock value strictly after issued_at + ttl.
C2_RoundTrip ==
    (issued # NoIssued /\ issued.role \in Roles /\ issued.ttl > 0
        /\ issued.key = _secret_key) =>
        LET d == decode_jwt(issued.tok)
        IN  /\ now < issued.at + issued.ttl =>
                  /\ d.err = "none"
                  /\ d.payload.sub = StrOf(issued.sub)
                  /\ d.payload.role = issued.role
            /\ now > issued.at + issued.ttl => d.err = "Expired"

\* C2's case: subject 42, role customer, ttl 8h, verified after the ttl has elapsed
C2_Witness ==
    /\ issued # NoIssued
    /\ issued.sub = [int |-> 42]
    /\ issued.role = "customer"
    /\ issued.ttl = DEFAULT_EXPIRES_IN
    /\ issued.key = _secret_key
    /\ now > issued.at + issued.ttl
    /\ decode_jwt(issued.tok).err = "Expired"

\* C3, as stated: verification of a correctly signed token fails as Expired whenever
\* now >= expires_at, the instant now = expires_at included.
C3_ExpiredFromExpiryInstant ==
    (issued # NoIssued /\ SignatureVerifies(issued.tok) /\ now >= issued.tok[1].exp) =>
        decode_jwt(issued.tok).err = "Expired"

\* C4: a token signed with a secret other than the one the verifier resolves never
\* verifies: decode_jwt fails on it, and a guarded request carrying it is answered
\* 401 without the handler being invoked, whatever its sub, role and expiry.
C4_OtherSecretNeverVerifies ==
    /\ \A t \in TokenStrings :
          (IsJwt(t) /\ t[1].sig # _secret_key) => decode_jwt(t).err # "none"
    /\ (Guarded /\ \E i \in DOMAIN resp.header :
                      resp.header[i].k = "jwt" /\ resp.header[i].sig # _secret_key) =>
          resp.status = 401 /\ ~resp.invoked

\* C4's case: an unexpired token issued under secret A, presented in a well-formed
\* header after the verifier's secret became B
C4_Witness ==
    /\ Guarded
    /\ issued # NoIssued
    /\ issued.key # _secret_key
    /\ issued.key \in {"k1", "dev-secret", "fallback_dev_secret"}
    /\ now < issued.tok[1].exp
    /\ resp.header = Bearer \o SP \o issued.tok
    /\ resp.status = 401
    /\ ~resp.invoked

\* The shape "Bearer <token>": the scheme in any letter case, whitespace, then one
\* token without whitespace; whitespace around the whole is tolerated
IsBearerShape(h) ==
    LET s == strip(h)
        rest == lstrip(SubSeq(s, 7, Len(s)))
    IN  /\ startswith(lower(s), bearer)
        /\ Len(s) > 6
        /\ s[7] \in Whitespace
        /\ rest # <<>>
        /\ \A i \in DOMAIN rest : rest[i] \notin Whitespace

\* C5, as stated: the guard answers 401 "Missing or invalid Authorization header"
\* whenever the header is absent or not of the shape "Bearer <token>"; a header value
\* that does not start with the Bearer scheme is never passed on to token
\* verification and never accepted.
C5_NonBearerHeaderIsMissingHeader ==
    /\ (Guarded /\ ~IsBearerShape(resp.header)) =>
          /\ resp.status = 401
          /\ resp.msg = "Missing or invalid Authorization header"
          /\ ~resp.invoked
    /\ (Guarded /\ ~startswith(lower(strip(resp.header)), bearer)) =>
          resp.err = "MissingHeader" /\ ~resp.invoked

\* C6: for a valid, unexpired token and a non-empty required-role set the guard
\* answers 403 exactly when the decoded role is not in the set, a token without a
\* role claim included; with an empty set a valid token is never answered 403.
C6_ForbiddenIffRoleNotAllowed ==
    (Guarded /\ resp.token # NoToken /\ decode_jwt(resp.token).err = "none") =>
        /\ resp.roles # {} =>
              (resp.status = 403 <=> decode_jwt(resp.token).payload.role \notin resp.roles)
        /\ resp.roles = {} => resp.status # 403

\* C6's case: a valid token that carries no role claim, against {"mechanic"}
C6_Witness ==
    /\ Guarded
    /\ resp.token # NoToken
    /\ decode_jwt(resp.token).err = "none"
    /\ now < resp.token[1].exp
    /\ resp.token[1].role = NoRole
    /\ resp.roles = {"mechanic"}
    /\ resp.status = 403

ResponseOf(x) == [status |-> x.status, key |-> x.key, msg |-> x.msg]

VerificationFailed(x) == x.kind = "guard" /\ x.err \in {"Malformed", "BadSignature", "Expired"}

\* C7: the response to a token that fails verification is the same (status 401,
\* same body) whichever of the three checks failed: the response to the request
\* served equals the response to "Bearer <t>" for every token string t that fails
\* verification, on every route (one such t always exists, so any two failing
\* requests get equal responses).
C7_FailureIndistinguishable ==
    VerificationFailed(resp) =>
        /\ resp.status = 401
        /\ ~resp.invoked
        /\ \A rs \in RequiredRoleSets, t \in TokenStrings :
              LET other == wrapper(rs, Bearer \o SP \o t)
              IN  VerificationFailed(other) => ResponseOf(other) = ResponseOf(resp)

\* C7's case: an expired token was refused while a malformed one and one with a bad
\* signature would be refused too
C7_Witness ==
    /\ Guarded
    /\ resp.err = "Expired"
    /\ resp.status = 401
    /\ \E t \in TokenStrings : wrapper({}, Bearer \o SP \o t).err = "Malformed"
    /\ \E t \in TokenStrings : wrapper({}, Bearer \o SP \o t).err = "BadSignature"

PrincipalUniverse ==
    { [id |-> 42, email |-> "a@x.io", password |-> "pw1"],
      [id |-> 7, email |-> "m@x.io", password |-> "pw2"],
      [id |-> 2, email |-> "zz@x.io", password |-> "pw1"] }

Stores == {Store(t, t) : t \in SUBSET PrincipalUniverse}

TableOf(path, store) == IF path = "/login" THEN store.customers ELSE store.mechanics

HasEmail(table, email) ==
    \E p \in table : p.email = email \/ p.email = normalize_email(email)

NoPrincipal(path, store, email) == ~HasEmail(TableOf(path, store), email)

PasswordMismatch(path, store, email, password) ==
    /\ HasEmail(TableOf(path, store), email)
    /\ \A p \in TableOf(path, store) : p.password # password

CredentialsFail(path, store, email, password) ==
    NoPrincipal(path, store, email) \/ PasswordMismatch(path, store, email, password)

\* C8: on either login endpoint, for a body with non-empty email and password, the
\* response when no principal has the email equals (status and body) the response
\* when the principal exists and the password does not match, and no token is
\* issued: the response served under the actual store equals the response the same
\* body gets under every store where the credential check fails either way.
C8_LoginFailuresIndistinguishable ==
    (resp.kind = "login" /\ resp.email # "" /\ resp.password # ""
        /\ CredentialsFail(resp.path, db, resp.email, resp.password)) =>
        /\ resp.token = NoToken
        /\ \A st \in Stores :
              CredentialsFail(resp.path, st, resp.email, resp.password) =>
                  view(resp.path, st, resp.email, resp.password)
                      = LoginResult(ResponseOf(resp), NoToken)

\* C8's case: POST /login for an e-mail no customer has, while a store where that
\* customer exists with another password is among those compared
C8_Witness ==
    /\ resp.kind = "login"
    /\ resp.path = "/login"
    /\ resp.email = "zz@x.io"
    /\ resp.password = "pw2"
    /\ NoPrincipal(resp.path, db, resp.email)
    /\ \E st \in Stores : PasswordMismatch(resp.path, st, resp.email, resp.password)
    /\ resp.status = 401

VariantRole(path) == IF path = "/login" THEN "customer" ELSE "mechanic"

LoginSucceeded == resp.kind = "login" /\ resp.status = 200

\* C18, as stated: the token a successful login returns carries the role of the
\* principal's variant, "customer" from POST /login and "mechanic" from POST
\* /mechanics/login, and a guard that requires that role accepts the token.
C18_LoginTokenCarriesVariantRole ==
    LoginSucceeded =>
        /\ resp.token # NoToken
        /\ resp.token[1].role = VariantRole(resp.path)
        /\ wrapper({VariantRole(resp.path)}, Bearer \o SP \o resp.token).invoked

\* What the login handlers do guarantee: the claim on POST /login, and on POST
\* /mechanics/login a token that verifies and names the mechanic but carries no role,
\* which a guard requiring "mechanic" refuses as Forbidden.
C18_CustomerTokenCarriesRole ==
    LoginSucceeded =>
        /\ resp.token # NoToken
        /\ decode_jwt(resp.token).err = "none"
        /\ resp.path = "/login" =>
              /\ resp.token[1].role = "customer"
              /\ wrapper({"customer"}, Bearer \o SP \o resp.token).invoked
        /\ resp.path = "/mechanics/login" =>
              /\ resp.token[1].role = NoRole
              /\ wrapper({"mechanic"}, Bearer \o SP \o resp.token).status = 403
              /\ wrapper({}, Bearer \o SP \o resp.token).invoked

\* The number of times the body of the stripping loop runs on h
RECURSIVE LoopIterations(_)
LoopIterations(h) ==
    IF startswith(lower(h), bearer) THEN 1 + LoopIterations(strip(SubSeq(h, 7, Len(h)))) ELSE 0

\* C19: for every token t that does not begin with "bearer" in any letter case, a
\* header made of one or more words Bearer in any letter case, with any whitespace
\* (none included) before, between and after the parts, followed by t, extracts
\* exactly t; a header of such words and whitespace alone extracts no token; and the
\* stripping loop ends on every header, after at most one round per six characters.
C19_BearerExtractionTolerantAndTotal ==
    Guarded =>
        /\ \A g \in BearerHeaderParts :
              BuildHeader(g.lead, g.words, g.t, g.trail) = resp.header =>
                  /\ (g.words # <<>> /\ g.t # <<>> /\ ~startswith(lower(g.t), bearer)) =>
                        resp.token = g.t
                  /\ g.t = <<>> => resp.token = NoToken
        /\ LoopIterations(strip(resp.header)) * 6 <= Len(resp.header)
        /\ resp.token = NoToken \/ ~startswith(lower(resp.token), bearer)

\* C19's case: " bEaReR \t Bearer<jwt> \t": two words in two letter cases, gaps of
\* different widths, no gap before the token; the token comes out whole
C19_Witness ==
    /\ Guarded
    /\ \E t \in ExtractTokens :
          /\ IsJwt(t)
          /\ resp.header = Str(<<" ", "\t", "b", "E", "a", "R", "e", "R", " ", "\t">>)
                               \o Bearer \o t \o Str(<<" ", "\t">>)
          /\ resp.token = t
    /\ resp.invoked

\* C14, as stated: the development default of the signing secret is used only
\* outside production: a process started as flask_app.py starts it,
\* create_app(ProductionConfig), with no SECRET_KEY in its environment, resolves a
\* secret other than the hardcoded default, so that no token is signed or verified
\* with it (encode_token and decode_jwt both take their key from _secret_key).
C14_NoDevSecretInProduction ==
    [][Configure("ProductionConfig", Unset) =>
            /\ _secret_key' # "dev-secret"
            /\ \A s \in SubjectInputs, r \in RoleInputs :
                  encode_token(s, r, DEFAULT_EXPIRES_IN)'[1].sig # "dev-secret"]_vars

----------------------------------------------------------------------------
(* Properties of the migration guard *)

\* C9, as stated: whenever _auto_migrate has acquired the advisory lock, the lock
\* is no longer held by that process when _auto_migrate returns, whatever the
\* outcome of the steps in between, a failing unlock statement included.
C9_LockReleasedOnReturn ==
    \A p \in Procs : (pc[p] = "returned" /\ Did(p, "locked")) => lock # p

\* C10: the guard never aborts startup: whatever fails at whichever step, no
\* exception leaves create_app, and a create_app that has ended has returned the
\* application object.
C10_StartupNeverAborts ==
    \A p \in Procs :
        /\ result[p] # "aborted"
        /\ pc[p] = "returned" => result[p] = "app"

\* C10's case: a run in which the upgrade, the drop, the retry, create_all, the
\* stamp and the unlock all failed, and create_app returned the application
C10_Witness ==
    \E p \in Procs :
        /\ pc[p] = "returned"
        /\ result[p] = "app"
        /\ log[p] = <<"locked", "upgrade_failed_missing_revision", "drop_failed",
                      "upgrade_failed_missing_revision",
                      "create_all_failed", "stamp_failed", "unlock_failed">>

RanGuard(p) == pc[p] = "returned" /\ log[p] # <<>> /\ log[p][1] = "locked"

InGuard(p) ==
    pc[p] \in {"upgrade1", "drop", "upgrade2", "inspect", "create_all", "stamp", "unlock"}

\* C11: two processes start side by side on one Postgres datastore with a pending
\* upgrade, and nothing fails for a reason outside the datastore's state.  Then the
\* two are never inside the locked section together; once both have returned from
\* the guard, exactly one of them has performed the upgrade, the other has found the
\* schema current (its upgrade changed nothing) and has dropped, created and stamped
\* nothing, both have got the application and the schema is at head; and both do
\* return.
C11_OneUpgradesOtherSkips ==
    /\ [](\A p \in Procs : \A q \in Procs \ {p} :
            (~Faulted(p) /\ ~Faulted(q)) =>
                /\ ~(InGuard(p) /\ InGuard(q))
                /\ (RanGuard(p) /\ RanGuard(q)) =>
                      /\ Did(p, "upgraded") # Did(q, "upgraded")
                      /\ Did(p, "upgraded") => log[q] = <<"locked", "upgrade_ok", "unlocked">>
                      /\ result[p] = "app"
                      /\ version = "head"
                      /\ lock = Free)
    /\ <>((\A p \in Procs : pc[p] = "returned") \/ (\E p \in Procs : Faulted(p)))

\* C11's case: w1 took the lock first, upgraded and bootstrapped; w2 got the lock
\* after w1 released it and found nothing to do; both have returned
C11_Witness ==
    /\ \A p \in Procs : pc[p] = "returned" /\ result[p] = "app" /\ ~Faulted(p)
    /\ log["w1"] = <<"locked", "upgraded", "create_all", "stamp", "unlocked">>
    /\ log["w2"] = <<"locked", "upgrade_ok", "unlocked">>
    /\ version = "head"

\* The run of p met a version pointer that is not in the migration history and
\* its DROP TABLE alembic_version ran
DroppedStalePointer(p) ==
    /\ Len(log[p]) >= 3
    /\ log[p][1] = "locked"
    /\ log[p][2] = "upgrade_failed_missing_revision"
    /\ log[p][3] = "drop"

\* C12, as stated: a run of the guard that meets a version pointer missing from the
\* history and drops alembic_version retries the upgrade, the retry succeeds, and
\* the run leaves the schema at the latest revision.
C12_StalePointerHealedInOneRun ==
    \A p \in Procs :
        (pc[p] = "returned" /\ DroppedStalePointer(p)) =>
            /\ Len(log[p]) >= 4
            /\ log[p][4] \in {"upgraded", "upgrade_ok"}
            /\ version = "head"

\* What the guard does instead: the retry that follows the drop never succeeds.  The
\* drop is uncommitted in the transaction of the lock-holding connection, the retry
\* runs on a connection of its own and needs alembic_version, so it ends only when
\* the database gives up on it.
C12_RetryAfterDropNeverSucceeds ==
    \A p \in Procs :
        (DroppedStalePointer(p) /\ Len(log[p]) >= 4) =>
            log[p][4] = "upgrade_failed_unavailable"

\* The run of p found the schema at the latest revision: its first upgrade succeeded
\* and changed nothing
FoundSchemaCurrent(p) ==
    Len(log[p]) >= 2 /\ log[p][1] = "locked" /\ log[p][2] = "upgrade_ok"

SchemaChanges == {"upgraded", "drop", "create_all", "stamp"}

\* C13, as stated: a run of the guard on a datastore whose schema is at the latest
\* revision (the revision is recorded, the tables of the history exist) is a no-op,
\* the first time and every time after: it reports no error and it drops, creates
\* and stamps nothing (stated for every run in which nothing fails for a reason
\* outside the datastore's state).
C13_NoOpOnCurrentSchema ==
    \A p \in Procs :
        (FoundSchemaCurrent(p) /\ tables.hist /\ ~Faulted(p)) =>
            /\ \A i \in DOMAIN log[p] : log[p][i] \notin SchemaChanges
            /\ pc[p] = "returned" => log[p] = <<"locked", "upgrade_ok", "unlocked">>

\* The guard of p ended in a failed state: it took the lock and no upgrade succeeded
GuardFailed(p) == pc[p] = "returned" /\ Did(p, "locked") /\ ~ok[p]

\* The schema is missing: no table of the migration history, no table of the data model
SchemaMissing == ~tables.hist /\ ~tables.core

\* C15, as stated: once the guard of a process has ended in a failed state and the
\* schema is missing, the health-check endpoint of that process does not answer
\* with an ok status.
C15_HealthReportsDegradedDatabase ==
    [][\A p \in Procs :
          (GuardFailed(p) /\ SchemaMissing /\ Get(p, "/health")) =>
              (resp'.status # 200 /\ resp'.msg # "ok")]_vars

UpgradeEntries ==
    {"upgraded", "upgrade_ok", "upgrade_failed_missing_revision",
     "upgrade_failed_duplicate_table", "upgrade_failed_unavailable"}

DropEntries == {"drop", "drop_failed"}

Count(p, entries) == Cardinality({i \in DOMAIN log[p] : log[p][i] \in entries})

\* C16, as stated: within one run the bookkeeping table is dropped and the upgrade
\* retried only when the first upgrade failed because the recorded version is missing
\* from the history; a first upgrade that failed for another reason is followed by
\* no drop and no retry; the upgrade is attempted at most twice and the drop at most
\* once.
C16_DropOnlyForMissingRevision ==
    \A p \in Procs :
        /\ Count(p, DropEntries) > 0 =>
              (Len(log[p]) >= 2 /\ log[p][2] = "upgrade_failed_missing_revision")
        /\ Count(p, UpgradeEntries) > 1 =>
              (Len(log[p]) >= 2 /\ log[p][2] = "upgrade_failed_missing_revision")
        /\ Count(p, UpgradeEntries) <= 2
        /\ Count(p, DropEntries) <= 1

\* What the guard does guarantee: at most two upgrade attempts and one drop in a
\* run, the drop and the retry following a failed first upgrade, whatever its cause.
C16_AtMostTwoUpgradesOneDrop ==
    \A p \in Procs :
        /\ Count(p, UpgradeEntries) <= 2
        /\ Count(p, DropEntries) <= 1
        /\ (Count(p, DropEntries) > 0 \/ Count(p, UpgradeEntries) > 1) =>
              (Len(log[p]) >= 2 /\ log[p][2] \in UpgradeEntries \ {"upgraded", "upgrade_ok"})

\* The run of p has taken the bootstrap branch: db.create_all() is its next call
Bootstrapping(p) == pc[p] = "create_all"

\* C17, as stated: the bootstrap (create_all, then the stamp at head) is entered only
\* after an upgrade attempt of the same run succeeded, never after both attempts
\* failed, and never while the tables created by the migration history are present.
C17_BootstrapOnlyAfterUpgradeOnBareSchema ==
    \A p \in Procs :
        Bootstrapping(p) =>
            /\ ok[p]
            /\ Count(p, {"upgraded", "upgrade_ok"}) > 0
            /\ ~tables.hist

\* What the guard does guarantee: it enters the bootstrap only when it found none of
\* the five tables it looks for.
C17_BootstrapOnlyWithoutCoreTables ==
    [][\A p \in Procs : (~Bootstrapping(p) /\ Bootstrapping(p)') => ~tables.core]_vars

\* A step of p that runs a schema-changing operation: the Alembic upgrade, DROP TABLE
\* alembic_version (of the guard or of scripts/prestart.py), create_all, the stamp
SchemaOperation(p) ==
    Upgrade(p) \/ DropVersion(p) \/ CreateAll(p) \/ Stamp(p) \/ PrestartDrop(p)

Schema == <<version, tables, pending>>

\* C20, as stated: every schema-changing operation of every startup path, that of
\* scripts/prestart.py included, is executed by a process that holds the advisory
\* lock at that moment (stated for the operations that do change the schema or its
\* bookkeeping, by a process whose create_app ran the guard on the Postgres
\* datastore; an operation that fails or finds nothing to do is left aside).
C20_SchemaChangesOnlyUnderLock ==
    [][\A p \in Procs :
          (SchemaOperation(p) /\ Schema' # Schema /\ Did(p, "locked")) => lock = p]_vars

\* C21, as stated: in the bootstrap branch the version bookkeeping is stamped as head
\* only if create_all succeeded: a stamp that moves alembic_version to the latest
\* revision is the stamp of a guard whose create_all succeeded, and it leaves a
\* datastore that has the core tables.
C21_StampOnlyAfterCreateAll ==
    [][\A p \in Procs :
          (Stamp(p) /\ version # "head" /\ version' = "head") =>
              (Did(p, "create_all") /\ tables'.core)]_vars

\* C22, as stated: every run of the guard that acquires the advisory lock
\* eventually returns; the retried upgrade does not wait forever on the DROP TABLE
\* the lock-holding connection has not committed (stated for the runs in which no
\* statement and no library call fails for a reason outside the datastore's state:
\* such a run returns, or such a failure comes to end it).
C22_GuardEventuallyReturns ==
    \A p \in Procs :
        (Did(p, "locked") /\ ~Faulted(p)) ~> (pc[p] = "returned" \/ Faulted(p))

\* What the guard does guarantee: a run that has acquired the advisory lock returns,
\* or comes to a statement that waits for alembic_version while an uncommitted DROP
\* TABLE (its own, or that of a run it overlaps after a lost connection) holds it.
C22_BlockedOnlyOnUncommittedDrop ==
    \A p \in Procs :
        Did(p, "locked") ~> (pc[p] = "returned" \/ (Waiting(p) /\ VersionTableLocked))

====
